---- MODULE Spec2Model ----
(***************************************************************************)
(* Model of the fury agent module (server/fury/agent.py): the three        *)
(* process-wide registries (models, programatic actions, AI actions) and   *)
(* the AIAction composition (construction and invocation); of the chain    *)
(* loader of the client (chainfury/client.py, get_chain_from_id); and of   *)
(* the chain executor (fury.base Chain) the stories drive.                 *)
(***************************************************************************)
EXTENDS Integers, Sequences, FiniteSets, TLC

VARIABLES
    models,          \* ModelRegistry.models          : dict id -> Model
    m_counter,       \* ModelRegistry.counter         : dict id -> int
    tags_to_models,  \* ModelRegistry.tags_to_models  : dict tag -> list of ids
    p_nodes,         \* ProgramaticActionsRegistry.nodes
    p_counter,       \* ProgramaticActionsRegistry.counter
    p_tags_to_nodes, \* ProgramaticActionsRegistry.tags_to_nodes
    ai_nodes,        \* AIActionsRegistry.nodes
    ai_counter,      \* AIActionsRegistry.counter
    ai_tags_to_nodes,\* AIActionsRegistry.tags_to_nodes
    action,          \* the AIAction object under invocation (ActionSpec)
    threads,         \* the threads calling get concurrently (RaceSpec): position and value read
    run,             \* the chain call in progress (ChainSpec): order, position, trace
    server,          \* the remote endpoint (LoadSpec): its answer for the chatbot, its actions
    ret              \* outcome of the last call: what was called, with what, and what it gave

m_vars == <<models, m_counter, tags_to_models>>
p_vars == <<p_nodes, p_counter, p_tags_to_nodes>>
ai_vars == <<ai_nodes, ai_counter, ai_tags_to_nodes>>
vars == <<models, m_counter, tags_to_models, p_nodes, p_counter, p_tags_to_nodes,
          ai_nodes, ai_counter, ai_tags_to_nodes, action, threads, run, server, ret>>

-----------------------------------------------------------------------------
(* Bounds of the model *)

\* total number of registry lookups (get) a behaviour performs
MaxGets == 3

-----------------------------------------------------------------------------
(* Python values *)

\* Python's None
None == [py |-> "None"]

\* an empty dict
EmptyDict == [k \in {} |-> None]

\* dict.get(key, default)
DictGet(d, k, default) == IF k \in DOMAIN d THEN d[k] ELSE default

\* d[k] = v on a dict: adds the key or overwrites its value
DictPut(d, k, v) == (k :> v) @@ d

\* the values of a set in one fixed order, as a list
RECURSIVE SetToSeq(_)
SetToSeq(S) == IF S = {} THEN <<>>
               ELSE LET x == CHOOSE y \in S : TRUE IN <<x>> \o SetToSeq(S \ {x})

\* sum of the values of an int-valued dict
RECURSIVE DictSum(_)
DictSum(d) == IF DOMAIN d = {} THEN 0
              ELSE LET k == CHOOSE y \in DOMAIN d : TRUE
                   IN d[k] + DictSum([x \in DOMAIN d \ {k} |-> d[x]])

\* exceptions the code raises, by class and message
NoError == "None"
ErrModelRegistered == "Exception: Model already registered"
ErrNodeRegistered == "Exception: Node already registered"
ErrReturnsMissing == "AssertionError: If outputs is not provided then returns must be provided"
ErrModelNotFound == "ValueError: Model not found"
ErrPNodeNotFound == "ValueError: p-node not found"
ErrAINodeNotFound == "ValueError: ai-node not found"
ErrParamsNotSubset == "Exception: Model params not a subset of model fields"
ErrFnType == "AssertionError: fn can either be a function or a string"
ErrFieldRequired == "Exception: Field is required but not present"
ErrPreprocessor == "Exception: AI Action preprocessor did not return a dict"
ErrPreprocessorRaised == "Exception: raised by the preprocessor"
ErrModelCall == "Exception: reported by the model"

-----------------------------------------------------------------------------
(* Callables and their introspection (fury.base) *)

\* a dict argument and a callable argument, as type(fn) tells them apart;
\* a callable is known by its name and its parameters
PyDict(d) == [py |-> "dict", d |-> d]
PyFunction(name, params) == [py |-> "function", name |-> name, params |-> params]

\* a parameter of a callable
Param(name, has_default) == [name |-> name, has_default |-> has_default]

\* fury.base.Var: a field descriptor
Var(name, required, loc) == [name |-> name, required |-> required, loc |-> loc]

\* fury.base.func_to_vars: one descriptor per parameter of the callable,
\* required when the parameter has no default
func_to_vars(fn) ==
    [i \in DOMAIN fn.params |->
        Var(fn.params[i].name, ~fn.params[i].has_default, <<>>)]

\* fury.base.func_to_return_vars: one descriptor per name of the return shape,
\* carrying the location recorded for it
func_to_return_vars(func, returns) ==
    LET names == SetToSeq(DOMAIN returns)
    IN [i \in DOMAIN names |-> Var(names[i], TRUE, returns[names[i]])]

\* fury.base.Model
Model(collection_name, model_id, fn, description, mvars, tags) ==
    [collection_name |-> collection_name, model_id |-> model_id, fn |-> fn,
     description |-> description, vars |-> mvars, tags |-> tags]

\* fury.base.Node
Node(id, type, fn, description, fields, outputs) ==
    [id |-> id, type |-> type, fn |-> fn, description |-> description,
     fields |-> fields, outputs |-> outputs]

\* for tag in tags: index[tag] = index.get(tag, []) + [id]
RECURSIVE AddTags(_, _, _)
AddTags(index, tags, id) ==
    IF tags = <<>> THEN index
    ELSE AddTags(DictPut(index, Head(tags), DictGet(index, Head(tags), <<>>) \o <<id>>),
                 Tail(tags), id)

\* the names of a list of descriptors
VarNames(vs) == {vs[i].name : i \in DOMAIN vs}

-----------------------------------------------------------------------------
(* Nested request bodies and jinja templates (fury.base, jinja2) *)

\* A string is a list of pieces: literal text and {{ name }} placeholders.
Lit(s) == [k |-> "lit", s |-> s]
Ph(name) == [k |-> "ph", s |-> name]

\* scalar values: a string, or an int given by its decimal digits
StrVal(toks) == [ty |-> "str", toks |-> toks]
IntVal(digits) == [ty |-> "int", toks |-> <<Lit(digits)>>]

\* A value is a nested structure of dicts and lists with scalar leaves, held
\* as the mapping from the path of each leaf (keys and indices, outermost
\* first) to the leaf; a scalar value is the single leaf at the empty path.
Scalar(v) == (<<>> :> v)

\* the placeholders of a string: "{{" in val and "}}" in val
HasPlaceholder(leaf) ==
    leaf.ty = "str" /\ \E i \in DOMAIN leaf.toks : leaf.toks[i].k = "ph"

\* fury.base.jtype_to_vars: the variables a template string references
jtype_to_vars(leaf) ==
    LET names == SetToSeq({leaf.toks[i].s : i \in {j \in DOMAIN leaf.toks : leaf.toks[j].k = "ph"}})
    IN [i \in DOMAIN names |-> Var(names[i], TRUE, <<>>)]

\* fury.base.extract_jinja_indices: for every leaf holding a placeholder, the
\* path to the leaf and the variables it references
extract_jinja_indices(d) ==
    LET leaves == UNION {{<<key>> \o p : p \in DOMAIN d[key]} : key \in DOMAIN d}
        locs == SetToSeq({l \in leaves : HasPlaceholder(d[Head(l)][Tail(l)])})
    IN [i \in DOMAIN locs |-> <<locs[i], jtype_to_vars(d[Head(locs[i])][Tail(locs[i])])>>]

\* fury.base.get_value_by_keys: walk the path, None when it leads nowhere
get_value_by_keys(d, keys) ==
    IF keys # <<>> /\ Head(keys) \in DOMAIN d /\ Tail(keys) \in DOMAIN d[Head(keys)]
    THEN d[Head(keys)][Tail(keys)]
    ELSE None

\* fury.base.put_value_by_keys: write the value at the path
put_value_by_keys(d, keys, value) ==
    [d EXCEPT ![Head(keys)] = [@ EXCEPT ![Tail(keys)] = value]]

\* str(value) of a payload value as jinja prints it; an undefined variable
\* prints as the empty string
RenderPiece(tok, data) ==
    IF tok.k = "lit" THEN <<tok>>
    ELSE IF tok.s \in DOMAIN data /\ <<>> \in DOMAIN data[tok.s]
         THEN [i \in DOMAIN data[tok.s][<<>>].toks |-> Lit(data[tok.s][<<>>].toks[i].s)]
         ELSE <<Lit("")>>

RECURSIVE RenderToks(_, _)
RenderToks(toks, data) ==
    IF toks = <<>> THEN <<>>
    ELSE RenderPiece(Head(toks), data) \o RenderToks(Tail(toks), data)

\* jinja2.Template(raw).render(**data): always a string
Render(raw, data) == StrVal(RenderToks(raw.toks, data))

\* Python truth value of a leaf: None and the empty string are falsy
Falsy(obj) == obj = None \/ obj.toks = <<>>

\* list concatenation of the variable lists of the locations
RECURSIVE ExtendAll(_)
ExtendAll(fwl) == IF fwl = <<>> THEN <<>> ELSE Head(fwl)[2] \o ExtendAll(Tail(fwl))

-----------------------------------------------------------------------------
(* Inputs: the ids, callables and registration requests the callers use *)

ModelIds == {"m1", "m2"}
NodeIds == {"n1", "n2"}

\* model callables
FnCompletion == PyFunction("completion", <<Param("prompt", FALSE), Param("temperature", TRUE)>>)
FnChat == PyFunction("chat", <<Param("messages", FALSE)>>)

\* ModelRegistry.register(fn, collection_name, model_id, description, tags)
ModelRequests ==
    { [fn |-> FnCompletion, collection_name |-> "openai", model_id |-> "m1",
       description |-> "completion", tags |-> <<"text">>],
      [fn |-> FnChat, collection_name |-> "openai", model_id |-> "m2",
       description |-> "chat", tags |-> <<>>],
      [fn |-> FnChat, collection_name |-> "openai", model_id |-> "m1",
       description |-> "chat", tags |-> <<"text">>] }

\* plain functions registered as programatic actions
FnCallApi == PyFunction("call_api", <<Param("url", FALSE), Param("headers", TRUE)>>)
FnRegex == PyFunction("regex_substitute", <<Param("pattern", FALSE), Param("text", FALSE)>>)

\* ProgramaticActionsRegistry.register(fn, node_id, description, returns, outputs, tags)
\* outputs is None, or a dict name -> location
ProgramaticRequests ==
    { [fn |-> FnCallApi, node_id |-> "n1", description |-> "call an API",
       returns |-> <<"text">>, outputs |-> None, tags |-> <<"io">>],
      [fn |-> FnRegex, node_id |-> "n2", description |-> "substitute",
       returns |-> <<>>, outputs |-> ("text" :> <<"0">>), tags |-> <<"io">>],
      [fn |-> FnRegex, node_id |-> "n1", description |-> "substitute",
       returns |-> <<"text">>, outputs |-> ("text" :> <<"0">>), tags |-> <<>>],
      [fn |-> FnRegex, node_id |-> "n2", description |-> "substitute",
       returns |-> <<>>, outputs |-> EmptyDict, tags |-> <<"io">>],
      [fn |-> FnCallApi, node_id |-> "n1", description |-> "call an API",
       returns |-> <<>>, outputs |-> None, tags |-> <<>>] }

\* request bodies of AI actions
\* {"say": "{{ text }}"}
TmplSay == PyDict("say" :> Scalar(StrVal(<<Ph("text")>>)))
\* {"messages": [{"role": "user", "content": "Explain {{ text }} as {{ style }}"}], "temperature": 1}
TmplChat ==
    PyDict(("messages" :> ((<<"0", "role">> :> StrVal(<<Lit("user")>>))
                           @@ (<<"0", "content">> :>
                                  StrVal(<<Lit("Explain "), Ph("text"), Lit(" as "), Ph("style")>>))))
           @@ ("temperature" :> Scalar(IntVal("1"))))
\* {"prompt": "{{ text }}", "echo": "again {{ text }}"}
TmplTwice ==
    PyDict(("prompt" :> Scalar(StrVal(<<Ph("text")>>)))
           @@ ("echo" :> Scalar(StrVal(<<Lit("again "), Ph("text")>>))))
\* def make_prompt(text, style="plain")
FnPre == PyFunction("make_prompt", <<Param("text", FALSE), Param("style", TRUE)>>)
\* neither a dict nor a function
NotCallable == [py |-> "str", s |-> "make_prompt"]

\* AIActionsRegistry.register(node_id, model_id, model_params, fn, outputs, description, tags)
AIRequests ==
    { [node_id |-> "n1", model_id |-> "m1",
       model_params |-> ("temperature" :> Scalar(IntVal("0"))),
       fn |-> TmplSay, outputs |-> EmptyDict, description |-> "say", tags |-> <<"gen">>],
      [node_id |-> "n2", model_id |-> "m2", model_params |-> EmptyDict,
       fn |-> FnPre, outputs |-> ("reply" :> <<"choices", "0">>), description |-> "pre",
       tags |-> <<"gen">>],
      [node_id |-> "n1", model_id |-> "m2", model_params |-> EmptyDict,
       fn |-> FnPre, outputs |-> ("reply" :> <<"choices", "0">>), description |-> "pre",
       tags |-> <<>>],
      [node_id |-> "n2", model_id |-> "m1",
       model_params |-> ("bogus" :> Scalar(IntVal("0"))),
       fn |-> TmplSay, outputs |-> EmptyDict, description |-> "say", tags |-> <<"gen">>],
      [node_id |-> "n1", model_id |-> "m2", model_params |-> EmptyDict,
       fn |-> NotCallable, outputs |-> EmptyDict, description |-> "pre", tags |-> <<>>] }

\* the arguments of AIAction(node_id, model, model_params, fn, outputs) for the
\* actions that are invoked
ModelCompletion ==
    Model("openai", "m1", FnCompletion, "completion", func_to_vars(FnCompletion), <<"text">>)
ModelChat == Model("openai", "m2", FnChat, "chat", func_to_vars(FnChat), <<>>)
ActionRequests ==
    { [node_id |-> "say", model |-> ModelCompletion,
       model_params |-> ("temperature" :> Scalar(IntVal("0"))),
       fn |-> TmplSay, outputs |-> EmptyDict],
      [node_id |-> "chat", model |-> ModelChat,
       model_params |-> ("messages" :> Scalar(StrVal(<<Lit("default")>>))),
       fn |-> TmplChat, outputs |-> ("reply" :> <<"choices", "0">>)],
      [node_id |-> "twice", model |-> ModelCompletion,
       model_params |-> ("temperature" :> Scalar(IntVal("0"))),
       fn |-> TmplTwice, outputs |-> EmptyDict],
      [node_id |-> "pre", model |-> ModelCompletion,
       model_params |-> ("temperature" :> Scalar(IntVal("0"))),
       fn |-> FnPre, outputs |-> EmptyDict] }

\* payloads of an invocation: each key absent or bound to one of its values
PayloadValues ==
    [text |-> {Scalar(StrVal(<<Lit("hi")>>)), Scalar(IntVal("5"))},
     style |-> {Scalar(StrVal(<<Lit("rap")>>))},
     temperature |-> {Scalar(IntVal("2"))},
     prompt |-> {Scalar(StrVal(<<Lit("raw")>>))}]
Payloads ==
    UNION {[keys -> UNION {PayloadValues[k] : k \in keys}] : keys \in SUBSET DOMAIN PayloadValues}
PayloadsTyped == {d \in Payloads : \A k \in DOMAIN d : d[k] \in PayloadValues[k]}

\* what a pre-processor may do when called: return a dict, return something
\* else, raise
FnResults ==
    { [kind |-> "dict", d |-> ("prompt" :> Scalar(StrVal(<<Lit("made")>>)))],
      [kind |-> "dict", d |-> ("prompt" :> Scalar(StrVal(<<Lit("made")>>)))
                              @@ ("temperature" :> Scalar(IntVal("9")))],
      [kind |-> "str"],
      [kind |-> "raise"] }

\* the (out, err) pairs a model may give
ModelResults ==
    { [out |-> "generation", err |-> NoError],
      [out |-> "trace", err |-> ErrModelCall],
      [out |-> "", err |-> ErrModelCall] }

\* Python truth value of the outputs argument: None and {} are falsy
Truthy(outputs) == outputs # None /\ DOMAIN outputs # {}

\* lookups performed so far, over the three registries
TotalGets == DictSum(m_counter) + DictSum(p_counter) + DictSum(ai_counter)

\* the outcome record of a call
Ret(op, id, err, out) == [op |-> op, id |-> id, err |-> err, out |-> out]

-----------------------------------------------------------------------------
(* ModelRegistry *)

\* ModelRegistry.register without the check of the id: a second registration
\* replaces the model
ModelRegistry_register_Overwrite(fn, collection_name, model_id, description, tags) ==
    /\ models' = DictPut(models, model_id,
                     Model(collection_name, model_id, fn, description,
                           func_to_vars(fn), tags))
    /\ tags_to_models' = AddTags(tags_to_models, tags, model_id)
    /\ ret' = Ret("ModelRegistry.register", model_id, NoError, None)
    /\ UNCHANGED <<m_counter, p_vars, ai_vars, action, threads, run, server>>

\* ModelRegistry.register
ModelRegistry_register(fn, collection_name, model_id, description, tags) ==
    IF model_id \in DOMAIN models
    THEN /\ ret' = Ret("ModelRegistry.register", model_id, ErrModelRegistered, None)
         /\ UNCHANGED <<m_vars, p_vars, ai_vars, action, threads, run, server>>
    ELSE /\ models' = DictPut(models, model_id,
                          Model(collection_name, model_id, fn, description,
                                func_to_vars(fn), tags))
         /\ tags_to_models' = AddTags(tags_to_models, tags, model_id)
         /\ ret' = Ret("ModelRegistry.register", model_id, NoError, None)
         /\ UNCHANGED <<m_counter, p_vars, ai_vars, action, threads, run, server>>

\* ModelRegistry.get that does not count the lookup
ModelRegistry_get_NoCount(model_id) ==
    /\ TotalGets < MaxGets
    /\ ret' = IF model_id \in DOMAIN models
              THEN Ret("ModelRegistry.get", model_id, NoError, models[model_id])
              ELSE Ret("ModelRegistry.get", model_id, ErrModelNotFound, None)
    /\ UNCHANGED <<m_vars, p_vars, ai_vars, action, threads, run, server>>

\* ModelRegistry.get
ModelRegistry_get(model_id) ==
    /\ TotalGets < MaxGets
    /\ m_counter' = DictPut(m_counter, model_id, DictGet(m_counter, model_id, 0) + 1)
    /\ ret' = IF model_id \in DOMAIN models
              THEN Ret("ModelRegistry.get", model_id, NoError, models[model_id])
              ELSE Ret("ModelRegistry.get", model_id, ErrModelNotFound, None)
    /\ UNCHANGED <<models, tags_to_models, p_vars, ai_vars, action, threads, run, server>>

-----------------------------------------------------------------------------
(* ProgramaticActionsRegistry *)

\* ProgramaticActionsRegistry.register without the check that a return shape is given
ProgramaticActionsRegistry_register_NoShape(fn, node_id, description, returns, outputs, tags) ==
    LET Result(err, out) ==
            [op |-> "ProgramaticActionsRegistry.register", id |-> node_id, err |-> err,
             out |-> out, returns |-> returns, outputs |-> outputs]
    IN
    IF node_id \in DOMAIN p_nodes
    THEN /\ ret' = Result(ErrNodeRegistered, None)
         /\ UNCHANGED <<m_vars, p_vars, ai_vars, action, threads, run, server>>
    ELSE LET outs == IF ~Truthy(outputs)
                     THEN [x \in {returns[i] : i \in DOMAIN returns} |-> <<>>]
                     ELSE outputs
             node == Node(node_id, "programatic", fn, description,
                          func_to_vars(fn), func_to_return_vars(fn, outs))
         IN /\ p_nodes' = DictPut(p_nodes, node_id, node)
            /\ p_tags_to_nodes' = AddTags(p_tags_to_nodes, tags, node_id)
            /\ ret' = Result(NoError, node)
            /\ UNCHANGED <<m_vars, p_counter, ai_vars, action, threads, run, server>>

\* ProgramaticActionsRegistry.register
ProgramaticActionsRegistry_register(fn, node_id, description, returns, outputs, tags) ==
    LET Result(err, out) ==
            [op |-> "ProgramaticActionsRegistry.register", id |-> node_id, err |-> err,
             out |-> out, returns |-> returns, outputs |-> outputs]
    IN
    IF node_id \in DOMAIN p_nodes
    THEN /\ ret' = Result(ErrNodeRegistered, None)
         /\ UNCHANGED <<m_vars, p_vars, ai_vars, action, threads, run, server>>
    ELSE IF ~Truthy(outputs) /\ Len(returns) = 0
    THEN /\ ret' = Result(ErrReturnsMissing, None)
         /\ UNCHANGED <<m_vars, p_vars, ai_vars, action, threads, run, server>>
    ELSE LET outs == IF ~Truthy(outputs)
                     THEN [x \in {returns[i] : i \in DOMAIN returns} |-> <<>>]
                     ELSE outputs
             node == Node(node_id, "programatic", fn, description,
                          func_to_vars(fn), func_to_return_vars(fn, outs))
         IN /\ p_nodes' = DictPut(p_nodes, node_id, node)
            /\ p_tags_to_nodes' = AddTags(p_tags_to_nodes, tags, node_id)
            /\ ret' = Result(NoError, node)
            /\ UNCHANGED <<m_vars, p_counter, ai_vars, action, threads, run, server>>

\* ProgramaticActionsRegistry.get
ProgramaticActionsRegistry_get(node_id) ==
    /\ TotalGets < MaxGets
    /\ p_counter' = DictPut(p_counter, node_id, DictGet(p_counter, node_id, 0) + 1)
    /\ ret' = IF node_id \in DOMAIN p_nodes
              THEN Ret("ProgramaticActionsRegistry.get", node_id, NoError, p_nodes[node_id])
              ELSE Ret("ProgramaticActionsRegistry.get", node_id, ErrPNodeNotFound, None)
    /\ UNCHANGED <<m_vars, p_nodes, p_tags_to_nodes, ai_vars, action, threads, run, server>>

-----------------------------------------------------------------------------
(* AIAction *)

JTYPE == "jinja-template"
FUNC == "python-function"

\* the outcome of a constructor: the object, or the exception raised
Built(obj) == [err |-> NoError, obj |-> obj]
Raised(err) == [err |-> err, obj |-> None]

\* AIAction.__init__ without the check of model_params against the model's fields
AIAction_init_NoParamCheck(node_id, model, model_params, fn, outputs) ==
    IF fn.py = "dict"
    THEN LET fields_with_locations == extract_jinja_indices(fn.d)
             templates == [i \in DOMAIN fields_with_locations |->
                              [raw |-> get_value_by_keys(fn.d, fields_with_locations[i][1]),
                               keys |-> fields_with_locations[i][1]]]
         IN Built([node_id |-> node_id, model |-> model, model_params |-> model_params,
                   fn |-> fn, action_source |-> JTYPE,
                   fields |-> ExtendAll(fields_with_locations),
                   templates |-> templates, outputs |-> outputs])
    ELSE IF fn.py # "function" THEN Raised(ErrFnType)
    ELSE Built([node_id |-> node_id, model |-> model, model_params |-> model_params,
                fn |-> fn, action_source |-> FUNC, fields |-> func_to_vars(fn),
                templates |-> <<>>, outputs |-> outputs])

\* AIAction.__init__
AIAction_init(node_id, model, model_params, fn, outputs) ==
    LET fields == VarNames(model.vars)
        mp_set == DOMAIN model_params
    IN IF ~(mp_set \subseteq fields) THEN Raised(ErrParamsNotSubset)
       ELSE IF fn.py = "dict"
       THEN LET fields_with_locations == extract_jinja_indices(fn.d)
                templates == [i \in DOMAIN fields_with_locations |->
                                 [raw |-> get_value_by_keys(fn.d, fields_with_locations[i][1]),
                                  keys |-> fields_with_locations[i][1]]]
            IN IF \E i \in DOMAIN templates : Falsy(templates[i].raw)
               THEN Raised("ValueError: Field not found but was extracted")
               ELSE Built([node_id |-> node_id, model |-> model, model_params |-> model_params,
                           fn |-> fn, action_source |-> JTYPE,
                           fields |-> ExtendAll(fields_with_locations),
                           templates |-> templates, outputs |-> outputs])
       ELSE IF fn.py # "function" THEN Raised(ErrFnType)
       ELSE Built([node_id |-> node_id, model |-> model, model_params |-> model_params,
                   fn |-> fn, action_source |-> FUNC, fields |-> func_to_vars(fn),
                   templates |-> <<>>, outputs |-> outputs])

\* data.pop(key): the dict without the key
DictPop(d, k) == [x \in DOMAIN d \ {k} |-> d[x]]

\* the loop over self.fields without the check of the required fields
RECURSIVE AIAction_call_fields_NoCheck(_, _, _)
AIAction_call_fields_NoCheck(fields, data, own) ==
    IF fields = <<>> THEN [err |-> NoError, own |-> own, rest |-> data]
    ELSE LET f == Head(fields)
         IN IF f.name \in DOMAIN data
            THEN AIAction_call_fields_NoCheck(Tail(fields), DictPop(data, f.name),
                                              DictPut(own, f.name, data[f.name]))
            ELSE AIAction_call_fields_NoCheck(Tail(fields), data, own)

\* AIAction.__call__, the loop over self.fields: moves the action's own fields
\* from data to _data, raising on the first required field that data lacks
RECURSIVE AIAction_call_fields(_, _, _)
AIAction_call_fields(fields, data, own) ==
    IF fields = <<>> THEN [err |-> NoError, own |-> own, rest |-> data]
    ELSE LET f == Head(fields)
         IN IF f.required /\ f.name \notin DOMAIN data
            THEN [err |-> ErrFieldRequired, own |-> own, rest |-> data]
            ELSE IF f.name \in DOMAIN data
            THEN AIAction_call_fields(Tail(fields), DictPop(data, f.name),
                                      DictPut(own, f.name, data[f.name]))
            ELSE AIAction_call_fields(Tail(fields), data, own)

\* for raw, t, keys in self.templates: put_value_by_keys(fn_out, keys, t.render(**_data))
RECURSIVE RenderAll(_, _, _)
RenderAll(fn_out, templates, own) ==
    IF templates = <<>> THEN fn_out
    ELSE RenderAll(put_value_by_keys(fn_out, Head(templates).keys,
                                     Render(Head(templates).raw, own)),
                   Tail(templates), own)

\* the request body without the check of what the pre-processor returned:
\* anything that is not a dict passes for an empty one
AIAction_call_body_NoTypeCheck(self, own, fn_result) ==
    IF self.action_source = FUNC
    THEN IF fn_result.kind = "raise"
         THEN [err |-> ErrPreprocessorRaised, fn_out |-> None, fn_invoked |-> TRUE,
               rendered |-> FALSE]
         ELSE [err |-> NoError,
               fn_out |-> IF fn_result.kind = "dict" THEN fn_result.d ELSE EmptyDict,
               fn_invoked |-> TRUE, rendered |-> FALSE]
    ELSE [err |-> NoError, fn_out |-> RenderAll(self.fn.d, self.templates, own),
          fn_invoked |-> FALSE, rendered |-> TRUE]

\* AIAction.__call__, the request body: the pre-processor's dict in function
\* mode, the rendered deep copy of the template in template mode.
\* fn_result is what the pre-processor does when it is called.
AIAction_call_body(self, own, fn_result) ==
    IF self.action_source = FUNC
    THEN IF fn_result.kind = "raise"
         THEN [err |-> ErrPreprocessorRaised, fn_out |-> None, fn_invoked |-> TRUE,
               rendered |-> FALSE]
         ELSE IF fn_result.kind # "dict"
         THEN [err |-> ErrPreprocessor, fn_out |-> None, fn_invoked |-> TRUE,
               rendered |-> FALSE]
         ELSE [err |-> NoError, fn_out |-> fn_result.d, fn_invoked |-> TRUE,
               rendered |-> FALSE]
    ELSE [err |-> NoError, fn_out |-> RenderAll(self.fn.d, self.templates, own),
          fn_invoked |-> FALSE, rendered |-> TRUE]

\* the merge with the caller's payload applied last
AIAction_call_merge_PayloadLast(model_params, data, fn_out) ==
    data @@ (fn_out @@ model_params)

\* AIAction.__call__, the merge: {**self.model_params}, .update(data), .update(fn_out)
AIAction_call_merge(model_params, data, fn_out) ==
    fn_out @@ (data @@ model_params)

\* the end without the test of err: the model's pair as it came
AIAction_call_return_Unchanged(out, err) == <<out, err>>

\* AIAction.__call__, the end: the pair returned for the model's (out, err)
AIAction_call_return(out, err) ==
    IF err # NoError THEN <<"", err>> ELSE <<out, err>>

\* the pair of an invocation that raised: nothing is returned
NotReturned == "not returned"

\* the outcome of an invocation: the exception raised, or the pair returned,
\* with what was invoked on the way
Outcome(raised, pair, fn_invoked, rendered, model_invoked, own, rest, fn_out, passed) ==
    [raised |-> raised, result |-> pair[1], err |-> pair[2], fn_invoked |-> fn_invoked,
     rendered |-> rendered, model_invoked |-> model_invoked, own |-> own, rest |-> rest,
     fn_out |-> fn_out, passed |-> passed]

\* AIAction.__call__: fn_result is what the pre-processor does when called,
\* model_result the (out, err) pair the model gives when called
AIAction_call(data, fn_result, model_result) ==
    /\ action # None
    /\ LET split == AIAction_call_fields(action.fields, data, EmptyDict)
           body == AIAction_call_body(action, split.own, fn_result)
           passed == AIAction_call_merge(action.model_params, split.rest, body.fn_out)
           o == IF split.err # NoError
                THEN Outcome(split.err, <<NotReturned, NotReturned>>, FALSE, FALSE, FALSE,
                             split.own, split.rest, None, None)
                ELSE IF body.err # NoError
                THEN Outcome(NoError, <<"", body.err>>, body.fn_invoked, body.rendered, FALSE,
                             split.own, split.rest, None, None)
                ELSE Outcome(NoError, AIAction_call_return(model_result.out, model_result.err),
                             body.fn_invoked, body.rendered, TRUE,
                             split.own, split.rest, body.fn_out, passed)
       IN /\ ret' = [op |-> "AIAction.__call__", id |-> action.node_id, data |-> data,
                     fn_result |-> IF o.fn_invoked THEN fn_result ELSE None,
                     model_result |-> IF o.model_invoked THEN model_result ELSE None,
                     outcome |-> o]
          \* fn_out is a copy.deepcopy of self.fn: the object is not written
          /\ action' = action
    /\ UNCHANGED <<m_vars, p_vars, ai_vars, threads, run, server>>

-----------------------------------------------------------------------------
(* AIActionsRegistry *)

\* AIActionsRegistry.register
AIActionsRegistry_register(node_id, model_id, model_params, fn, outputs, description, tags) ==
    LET Result(err, out) ==
            [op |-> "AIActionsRegistry.register", id |-> node_id, err |-> err, out |-> out,
             model_id |-> model_id, model_params |-> model_params]
    IN
    /\ TotalGets < MaxGets
    \* model = model_registry.get(model_id)
    /\ m_counter' = DictPut(m_counter, model_id, DictGet(m_counter, model_id, 0) + 1)
    /\ IF model_id \notin DOMAIN models
       THEN /\ ret' = Result(ErrModelNotFound, None)
            /\ UNCHANGED <<models, tags_to_models, p_vars, ai_vars, action, threads, run, server>>
       ELSE LET model == models[model_id]
                built == AIAction_init(node_id, model, model_params, fn, outputs)
            IN IF built.err # NoError
               THEN /\ ret' = Result(built.err, None)
                    /\ UNCHANGED <<models, tags_to_models, p_vars, ai_vars, action, threads, run, server>>
               ELSE LET ai_action == built.obj
                        names == SetToSeq(DOMAIN outputs)
                        output_field ==
                            IF ~Truthy(outputs)
                            THEN func_to_return_vars(ai_action, ("model_output" :> <<>>))
                            ELSE [i \in DOMAIN names |->
                                     Var(names[i], FALSE, outputs[names[i]])]
                        node == Node(node_id, "ai", ai_action, description,
                                     ai_action.fields \o model.vars, output_field)
                    IN /\ ai_nodes' = DictPut(ai_nodes, node_id, node)
                       /\ ai_tags_to_nodes' = AddTags(ai_tags_to_nodes, tags, node_id)
                       /\ ret' = Result(NoError, node)
                       /\ UNCHANGED <<models, tags_to_models, p_vars, ai_counter, action, threads, run, server>>

\* AIActionsRegistry.get
AIActionsRegistry_get(node_id) ==
    /\ TotalGets < MaxGets
    /\ ai_counter' = DictPut(ai_counter, node_id, DictGet(ai_counter, node_id, 0) + 1)
    /\ ret' = IF node_id \in DOMAIN ai_nodes
              THEN Ret("AIActionsRegistry.get", node_id, NoError, ai_nodes[node_id])
              ELSE Ret("AIActionsRegistry.get", node_id, ErrAINodeNotFound, None)
    /\ UNCHANGED <<m_vars, p_vars, ai_nodes, ai_tags_to_nodes, action, threads, run, server>>

-----------------------------------------------------------------------------
(* Specification of the registries *)

Init ==
    /\ models = EmptyDict
    /\ m_counter = EmptyDict
    /\ tags_to_models = EmptyDict
    /\ p_nodes = EmptyDict
    /\ p_counter = EmptyDict
    /\ p_tags_to_nodes = EmptyDict
    /\ ai_nodes = EmptyDict
    /\ ai_counter = EmptyDict
    /\ ai_tags_to_nodes = EmptyDict
    /\ action = None
    /\ threads = EmptyDict
    /\ run = None
    /\ server = None
    /\ ret = Ret("init", "", NoError, None)

RegisterModel ==
    \E r \in ModelRequests :
        ModelRegistry_register(r.fn, r.collection_name, r.model_id, r.description, r.tags)

GetModel == \E id \in ModelIds : ModelRegistry_get(id)

RegisterProgramatic ==
    \E r \in ProgramaticRequests :
        ProgramaticActionsRegistry_register(r.fn, r.node_id, r.description, r.returns,
                                            r.outputs, r.tags)

GetProgramatic == \E id \in NodeIds : ProgramaticActionsRegistry_get(id)

RegisterAI ==
    \E r \in AIRequests :
        AIActionsRegistry_register(r.node_id, r.model_id, r.model_params, r.fn, r.outputs,
                                   r.description, r.tags)

GetAI == \E id \in NodeIds : AIActionsRegistry_get(id)

Next ==
    \/ RegisterModel
    \/ GetModel
    \/ RegisterProgramatic
    \/ GetProgramatic
    \/ RegisterAI
    \/ GetAI

Spec == Init /\ [][Next]_vars

-----------------------------------------------------------------------------
(* Properties of the registries, checked under Spec *)

\* a register call was given neither a non-empty outputs mapping nor a
\* non-empty returns list
NoShapeGiven(r) == ~Truthy(r.outputs) /\ Len(r.returns) = 0

\* C1: in ModelRegistry and ProgramaticActionsRegistry a register call whose id
\* is already registered fails, and the registry is exactly what it was before
\* the call: the entities, the tag index and the counters.
C1_DuplicateRegisterLeavesRegistry ==
    [][ /\ (ret'.op = "ModelRegistry.register" /\ ret'.id \in DOMAIN models)
            => /\ ret'.err = ErrModelRegistered
               /\ models' = models
               /\ tags_to_models' = tags_to_models
               /\ m_counter' = m_counter
        /\ (ret'.op = "ProgramaticActionsRegistry.register" /\ ret'.id \in DOMAIN p_nodes)
            => /\ ret'.err = ErrNodeRegistered
               /\ p_nodes' = p_nodes
               /\ p_tags_to_nodes' = p_tags_to_nodes
               /\ p_counter' = p_counter ]_vars

\* C1 witness: a duplicate registration was refused while the registry held
\* two models, a tag index and a counter
C1_Witness ==
    /\ ret.op = "ModelRegistry.register"
    /\ ret.err = ErrModelRegistered
    /\ DOMAIN models = ModelIds
    /\ DOMAIN tags_to_models # {}
    /\ DOMAIN m_counter # {}
    /\ DOMAIN p_nodes # {}

\* C2: in AIActionsRegistry a register call whose node_id is already registered
\* is rejected with a duplicate-id error, the node stored under the id stays
\* the node stored under it, and the tag index gains no entry.
C2_AIDuplicateRegisterRejected ==
    [][ (ret'.op = "AIActionsRegistry.register" /\ ret'.id \in DOMAIN ai_nodes)
            => /\ ret'.err = ErrNodeRegistered
               /\ ai_nodes' = ai_nodes
               /\ ai_tags_to_nodes' = ai_tags_to_nodes ]_vars

\* C3: in each registry, get of a registered id returns the entity stored
\* under the id and raises the id's counter by exactly 1, leaving the entities,
\* the tag index and every other counter alone; a second get of the same id
\* right after returns the same entity and raises the counter once more, by 2
\* in total.
GetCounts(op, entities, counter, entities2, counter2, index, index2) ==
    (ret'.op = op /\ ret'.id \in DOMAIN entities)
        => /\ ret'.err = NoError
           /\ ret'.out = entities[ret'.id]
           /\ entities2 = entities
           /\ index2 = index
           /\ DOMAIN counter2 = DOMAIN counter \cup {ret'.id}
           /\ counter2[ret'.id] = DictGet(counter, ret'.id, 0) + 1
           /\ \A other \in DOMAIN counter \ {ret'.id} : counter2[other] = counter[other]
           /\ (ret.op = op /\ ret.id = ret'.id /\ ret.err = NoError)
                => /\ ret'.out = ret.out
                   /\ counter2[ret'.id] = counter[ret'.id] + 1
                   /\ counter2[ret'.id] >= 2

C3_GetReturnsAndCounts ==
    [][ /\ GetCounts("ModelRegistry.get", models, m_counter, models', m_counter',
                     tags_to_models, tags_to_models')
        /\ GetCounts("ProgramaticActionsRegistry.get", p_nodes, p_counter, p_nodes', p_counter',
                     p_tags_to_nodes, p_tags_to_nodes')
        /\ GetCounts("AIActionsRegistry.get", ai_nodes, ai_counter, ai_nodes', ai_counter',
                     ai_tags_to_nodes, ai_tags_to_nodes') ]_vars

\* C3 witness: two gets of one registered AI action in a row
C3_Witness ==
    /\ ret.op = "AIActionsRegistry.get"
    /\ ret.err = NoError
    /\ ret.id \in DOMAIN ai_counter
    /\ ai_counter[ret.id] = 2
    /\ ret.out = ai_nodes[ret.id]

\* C4: AIActionsRegistry.register fails and adds no node when model_id is not
\* registered or model_params has a key that is no field of the model; it
\* stores a node only when the model exists and the keys of model_params are
\* among the names of the model's fields.
ModelAccepts(model_id, model_params) ==
    /\ model_id \in DOMAIN models
    /\ DOMAIN model_params \subseteq VarNames(models[model_id].vars)

C4_AIRegisterValidatesModel ==
    [][ ret'.op = "AIActionsRegistry.register"
            => /\ ~ModelAccepts(ret'.model_id, ret'.model_params)
                    => (ret'.err # NoError /\ ai_nodes' = ai_nodes)
               /\ ai_nodes' # ai_nodes
                    => ModelAccepts(ret'.model_id, ret'.model_params)
               /\ ret'.err = NoError
                    => /\ ModelAccepts(ret'.model_id, ret'.model_params)
                       /\ ret'.id \in DOMAIN ai_nodes'
                       /\ ai_nodes'[ret'.id] = ret'.out
                       /\ ret'.out.fn.model = models[ret'.model_id] ]_vars

\* C4 witness: a registration refused for its model_params, the model being
\* registered and the registry holding a node
C4_Witness ==
    /\ ret.op = "AIActionsRegistry.register"
    /\ ret.err = ErrParamsNotSubset
    /\ ret.model_id \in DOMAIN models
    /\ DOMAIN ai_nodes # {}

\* C5 as claimed: ProgramaticActionsRegistry.register given neither outputs nor
\* returns fails with the configuration error and leaves the registry
\* unchanged, whatever the id.
C5_NoShapeIsConfigurationError ==
    [][ (ret'.op = "ProgramaticActionsRegistry.register" /\ NoShapeGiven(ret'))
            => /\ ret'.err = ErrReturnsMissing
               /\ UNCHANGED p_vars ]_vars

\* C5 amended: ProgramaticActionsRegistry.register given neither outputs nor
\* returns fails and leaves the registry unchanged: with the configuration
\* error when the id is fresh, with the duplicate-id error when the id is
\* registered; given one of the two and a fresh id, it stores the node under
\* node_id.
C5_NoShapeFails ==
    [][ ret'.op = "ProgramaticActionsRegistry.register"
            => /\ NoShapeGiven(ret')
                    => /\ ret'.err = IF ret'.id \in DOMAIN p_nodes
                                     THEN ErrNodeRegistered ELSE ErrReturnsMissing
                       /\ UNCHANGED p_vars
               /\ (~NoShapeGiven(ret') /\ ret'.id \notin DOMAIN p_nodes)
                    => /\ ret'.err = NoError
                       /\ ret'.id \in DOMAIN p_nodes'
                       /\ p_nodes'[ret'.id] = ret'.out
                       /\ p_nodes'[ret'.id].id = ret'.id ]_vars

\* C5 witness: a registration with a fresh id and no shape, refused, the
\* registry holding a node, a tag index and a counter
C5_Witness ==
    /\ ret.op = "ProgramaticActionsRegistry.register"
    /\ NoShapeGiven(ret)
    /\ ret.err = ErrReturnsMissing
    /\ DOMAIN p_nodes # {}
    /\ DOMAIN p_tags_to_nodes # {}
    /\ DOMAIN p_counter # {}

-----------------------------------------------------------------------------
(* Specification of the invocations of one AIAction *)

\* the AIAction objects the constructor builds from the requests
BuiltActions ==
    {b.obj : b \in {c \in {AIAction_init(r.node_id, r.model, r.model_params, r.fn, r.outputs) :
                              r \in ActionRequests} : c.err = NoError}}

ActionInit ==
    /\ models = EmptyDict
    /\ m_counter = EmptyDict
    /\ tags_to_models = EmptyDict
    /\ p_nodes = EmptyDict
    /\ p_counter = EmptyDict
    /\ p_tags_to_nodes = EmptyDict
    /\ ai_nodes = EmptyDict
    /\ ai_counter = EmptyDict
    /\ ai_tags_to_nodes = EmptyDict
    /\ action \in BuiltActions
    /\ threads = EmptyDict
    /\ run = None
    /\ server = None
    /\ ret = Ret("init", "", NoError, None)

Invoke ==
    \E data \in PayloadsTyped, fn_result \in FnResults, model_result \in ModelResults :
        AIAction_call(data, fn_result, model_result)

ActionNext == Invoke

ActionSpec == ActionInit /\ [][ActionNext]_vars


-----------------------------------------------------------------------------
(* Properties of the invocation of an AIAction, checked under ActionSpec *)

Called == ret.op = "AIAction.__call__"

\* the keys of the payload that are none of the action's own fields
Remainder(data) == [k \in DOMAIN data \ VarNames(action.fields) |-> data[k]]

\* C6: an invocation whose payload lacks a required field of the action's own
\* field list fails with the missing-field error, and neither the
\* pre-processor, nor the rendering of the template, nor the model is invoked.
C6_MissingFieldStopsInvocation ==
    (Called /\ \E i \in DOMAIN action.fields :
                  action.fields[i].required /\ action.fields[i].name \notin DOMAIN ret.data)
        => /\ ret.outcome.raised = ErrFieldRequired
           /\ ~ret.outcome.fn_invoked
           /\ ~ret.outcome.rendered
           /\ ~ret.outcome.model_invoked

\* C6 witness: a payload with keys, but without a required one, was refused
C6_Witness ==
    /\ Called
    /\ ret.outcome.raised = ErrFieldRequired
    /\ DOMAIN ret.data # {}
    /\ \E i \in DOMAIN action.fields :
           action.fields[i].required /\ action.fields[i].name \notin DOMAIN ret.data

\* C7: the parameters passed to the model are the merge of model_params, then
\* the payload without the action's own fields, then the request body: every
\* key of each of the three is passed, with the value of the last of the three
\* that has it.
C7_MergeOrder ==
    (Called /\ ret.outcome.model_invoked)
        => LET mp == action.model_params
               rest == Remainder(ret.data)
               body == ret.outcome.fn_out
               passed == ret.outcome.passed
           IN /\ DOMAIN passed = DOMAIN mp \cup DOMAIN rest \cup DOMAIN body
              /\ \A k \in DOMAIN passed :
                    passed[k] = IF k \in DOMAIN body THEN body[k]
                                ELSE IF k \in DOMAIN rest THEN rest[k]
                                ELSE mp[k]

\* C7 witness: one key is in all three mappings, with three different values,
\* and another in the payload and the body
C7_Witness ==
    /\ Called
    /\ ret.outcome.model_invoked
    /\ \E k \in DOMAIN action.model_params \cap DOMAIN Remainder(ret.data) :
          /\ k \in DOMAIN ret.outcome.fn_out
          /\ ret.outcome.fn_out[k] # Remainder(ret.data)[k]
          /\ Remainder(ret.data)[k] # action.model_params[k]
    /\ \E k \in DOMAIN Remainder(ret.data) \ DOMAIN action.model_params :
          k \in DOMAIN ret.outcome.fn_out

\* C8 as claimed: the invocation returns the model's (result, error) pair
\* unchanged.
C8_ModelPairUnchanged ==
    (Called /\ ret.outcome.model_invoked)
        => /\ ret.outcome.result = ret.model_result.out
           /\ ret.outcome.err = ret.model_result.err

\* C8 amended: the invocation returns the model's error unchanged; with it the
\* model's result when the model reports no error, and the empty string in
\* place of the model's result when it reports one.
C8_ModelErrorPropagated ==
    (Called /\ ret.outcome.model_invoked)
        => /\ ret.outcome.raised = NoError
           /\ ret.outcome.err = ret.model_result.err
           /\ ret.model_result.err = NoError => ret.outcome.result = ret.model_result.out
           /\ ret.model_result.err # NoError => ret.outcome.result = ""

\* C8 witness: the model reported an error together with a result that is not
\* the empty string
C8_Witness ==
    /\ Called
    /\ ret.outcome.model_invoked
    /\ ret.model_result.err # NoError
    /\ ret.model_result.out # ""
    /\ ret.outcome.err = ret.model_result.err

\* C9: in function mode, when the pre-processor raises or returns something
\* that is no dict, the invocation ends with an error in its (result, error)
\* pair and the model is not invoked.
C9_PreprocessorFailureStopsInvocation ==
    (Called /\ action.action_source = FUNC /\ ret.outcome.fn_invoked
            /\ ret.fn_result.kind # "dict")
        => /\ ret.outcome.raised = NoError
           /\ ret.outcome.err \notin {NoError, NotReturned}
           /\ ~ret.outcome.model_invoked

\* C9 witness: the pre-processor returned a string
C9_Witness ==
    /\ Called
    /\ action.action_source = FUNC
    /\ ret.outcome.fn_invoked
    /\ ret.fn_result.kind = "str"
    /\ ret.outcome.err = ErrPreprocessor

\* the variables the template of the action references
Referenced == UNION {VarNames(jtype_to_vars(action.templates[i].raw)) : i \in DOMAIN action.templates}

\* the template with every leaf that holds a placeholder replaced by its rendering
Rendering(template, data) ==
    [key \in DOMAIN template |->
        [path \in DOMAIN template[key] |->
            IF HasPlaceholder(template[key][path])
            THEN Render(template[key][path], data)
            ELSE template[key][path]]]

\* C10: in template mode, an invocation whose payload supplies every
\* placeholder the template references produces the template with each leaf
\* that holds a placeholder replaced by its rendering and everything else as in
\* the template, and the stored template is as it was constructed.
C10_TemplateRendered ==
    (Called /\ action.action_source = JTYPE /\ Referenced \subseteq DOMAIN ret.data)
        => /\ action \in BuiltActions
           /\ ret.outcome.raised = NoError
           /\ ret.outcome.rendered
           /\ ret.outcome.fn_out = Rendering(action.fn.d, ret.data)

-----------------------------------------------------------------------------
(* Chain executor (fury.base Chain), as the stories drive it *)

\* number of nodes of the longest chain
MaxChainNodes == 3

ErrChainStructure == "StructuralError: the chain is not a valid graph"
ErrMissingInput == "MissingInputError: a required field has no source"
ErrNodeCall == "Exception: reported by the node"

\* the ids of the nodes, in declaration order
ChainNodeNames == <<"find-quote", "tell-character-story", "deep-rap-quote", "fourth", "fifth">>

\* a node of a chain: one required input field, one declared output field
ChainNode(id) ==
    Node(id, "ai-powered", PyFunction(id, <<Param("text", FALSE)>>), "",
         <<Var("text", TRUE, <<>>)>>, <<Var("reply", TRUE, <<>>)>>)

\* fury.base.Edge
Edge(source, target, connection) ==
    [source |-> source, target |-> target, connection |-> connection]

\* fury.base.Chain
Chain(nodes, edges, sample, main_in, main_out) ==
    [nodes |-> nodes, edges |-> edges, sample |-> sample, main_in |-> main_in,
     main_out |-> main_out]

\* the key of a field of a node in the trace: "<node id>/<field name>"
TraceKey(id, field) == <<id, "/", field>>

\* the elements of a list
Range(seq) == {seq[i] : i \in DOMAIN seq}

\* the ids of the nodes of a chain, in declaration order
NodeIdsOf(chain) == [i \in DOMAIN chain.nodes |-> chain.nodes[i].id]

\* the sources of the inbound edges of a node
SourcesOf(chain, id) == {e.source : e \in {x \in Range(chain.edges) : x.target = id}}

\* the nodes reached from a set of nodes along at most k further edges
RECURSIVE ReachedIn(_, _, _)
ReachedIn(chain, S, k) ==
    IF k = 0 THEN S
    ELSE ReachedIn(chain, S \cup {e.target : e \in {x \in Range(chain.edges) : x.source \in S}},
                   k - 1)

\* there is an edge path from u to v
EdgePath(chain, u, v) ==
    v \in ReachedIn(chain, {e.target : e \in {x \in Range(chain.edges) : x.source = u}},
                    Len(chain.nodes))

\* Validate: edge endpoints exist, no cycle, primary input and output present
Chain_validate(chain) ==
    /\ \A e \in Range(chain.edges) :
           e.source \in Range(NodeIdsOf(chain)) /\ e.target \in Range(NodeIdsOf(chain))
    /\ \A u \in Range(NodeIdsOf(chain)) : ~EdgePath(chain, u, u)
    /\ chain.main_in # ""
    /\ chain.main_out # <<>>

\* the order of the declaration, whatever the edges
topological_sort_Declared(chain) == NodeIdsOf(chain)

\* Resolve order: the nodes without inbound edge first, in declaration order;
\* then each node as soon as the last of its sources is placed
RECURSIVE Kahn(_, _, _)
Kahn(chain, queue, order) ==
    IF queue = <<>> THEN order
    ELSE LET placed == Append(order, Head(queue))
             Freed(m) == /\ m \notin Range(placed) \cup Range(Tail(queue))
                         /\ SourcesOf(chain, m) # {}
                         /\ SourcesOf(chain, m) \subseteq Range(placed)
         IN Kahn(chain, Tail(queue) \o SelectSeq(NodeIdsOf(chain), Freed), placed)

topological_sort(chain) ==
    LET Root(m) == SourcesOf(chain, m) = {}
    IN Kahn(chain, SelectSeq(NodeIdsOf(chain), Root), <<>>)

\* the node of a chain with a given id
NodeOf(chain, id) == chain.nodes[CHOOSE i \in DOMAIN chain.nodes : chain.nodes[i].id = id]

\* Gather inputs: a field an inbound edge targets comes from the trace, under
\* the key of the edge's source; any other field comes from the payload
InboundOf(chain, id, field) ==
    SelectSeq(chain.edges, LAMBDA e : e.target = id /\ e.connection[2] = field)

SourceKey(chain, id, field) ==
    LET e == Head(InboundOf(chain, id, field)) IN TraceKey(e.source, e.connection[1])

Supplied(chain, id, field, payload, trace) ==
    IF InboundOf(chain, id, field) # <<>>
    THEN SourceKey(chain, id, field) \in DOMAIN trace
    ELSE field \in DOMAIN payload

Chain_gather(chain, id, payload, trace) ==
    LET node == NodeOf(chain, id)
        names == VarNames(node.fields)
        missing == {f \in names : ~Supplied(chain, id, f, payload, trace)}
    IN IF \E i \in DOMAIN node.fields :
              node.fields[i].required /\ node.fields[i].name \in missing
       THEN [err |-> ErrMissingInput, inputs |-> EmptyDict]
       ELSE [err |-> NoError,
             inputs |-> [f \in names \ missing |->
                            IF InboundOf(chain, id, f) # <<>>
                            THEN trace[SourceKey(chain, id, f)]
                            ELSE payload[f]]]

\* the chains the callers build: every set of edges between the declared nodes
\* (cyclic ones included), and one with an edge to a node that is not declared
ChainEdges(n) ==
    {Edge(ChainNodeNames[p[1]], ChainNodeNames[p[2]], <<"reply", "text">>) :
        p \in {q \in (1..n) \X (1..n) : q[1] # q[2]}}

ChainOn(n, edges) ==
    Chain([i \in 1..n |-> ChainNode(ChainNodeNames[i])], SetToSeq(edges), EmptyDict, "text",
          TraceKey(ChainNodeNames[n], "reply"))

Chains ==
    UNION {{ChainOn(n, E) : E \in SUBSET ChainEdges(n)} : n \in 1..MaxChainNodes}
    \cup {ChainOn(1, {Edge(ChainNodeNames[1], "undeclared", <<"reply", "text">>)})}

\* the payloads of a chain call
ChainPayloads == {[text \in {"text"} |-> "a quote"], EmptyDict}

\* the (result, error) pairs the callable of a node may give
NodeResults ==
    { [out |-> [reply |-> "generation"], err |-> NoError],
      [out |-> [reply |-> ""], err |-> ErrNodeCall] }

\* a chain call before its first step; out is the main output, "" until the
\* call returns it
ChainRun(chain, payload) ==
    [chain |-> chain, payload |-> payload, status |-> "created", order |-> <<>>,
     executing |-> "", inputs |-> EmptyDict, started |-> <<>>, finished |-> <<>>,
     trace |-> EmptyDict, out |-> "", err |-> NoError]

\* Chain.__call__, entry: validate the chain, then resolve the order
Chain_call ==
    /\ run.status = "created"
    /\ run' = IF Chain_validate(run.chain)
              THEN [run EXCEPT !.status = "running", !.order = topological_sort(run.chain)]
              ELSE [run EXCEPT !.status = "returned", !.err = ErrChainStructure]
    /\ ret' = Ret("Chain.__call__", "", run'.err, None)
    /\ UNCHANGED <<m_vars, p_vars, ai_vars, action, threads, server>>

\* Chain.__call__, next node of the order: gather its inputs and invoke its callable
Chain_invoke ==
    /\ run.status = "running"
    /\ run.executing = ""
    /\ Len(run.started) < Len(run.order)
    /\ LET id == run.order[Len(run.started) + 1]
           g == Chain_gather(run.chain, id, run.payload, run.trace)
       IN /\ run' = IF g.err # NoError
                    THEN [run EXCEPT !.status = "returned", !.err = g.err]
                    ELSE [run EXCEPT !.executing = id, !.inputs = g.inputs,
                                     !.started = Append(@, id)]
          /\ ret' = Ret("Chain.invoke", id, g.err, None)
    /\ UNCHANGED <<m_vars, p_vars, ai_vars, action, threads, server>>

\* the run goes on after an error of the node, recording what the node gave
Chain_step_Continue(r, result) ==
    LET node == NodeOf(r.chain, r.executing)
        recorded == [k \in {TraceKey(node.id, o) : o \in VarNames(node.outputs)} |->
                        result.out[k[3]]] @@ r.trace
        last == Len(r.finished) + 1 = Len(r.order)
    IN [r EXCEPT !.executing = "", !.finished = Append(@, node.id), !.trace = recorded,
                 !.status = IF last THEN "returned" ELSE "running",
                 !.out = IF last THEN DictGet(recorded, r.chain.main_out, "") ELSE ""]

\* the callable of the executing node gave (result, error): on an error the
\* call returns it with the trace so far; otherwise every declared output is
\* recorded, and after the last node the call returns the main output
Chain_step(r, result) ==
    LET node == NodeOf(r.chain, r.executing)
        recorded == [k \in {TraceKey(node.id, o) : o \in VarNames(node.outputs)} |->
                        result.out[k[3]]] @@ r.trace
        last == Len(r.finished) + 1 = Len(r.order)
    IN IF result.err # NoError
       THEN [r EXCEPT !.executing = "", !.finished = Append(@, node.id),
                      !.status = "returned", !.err = result.err]
       ELSE [r EXCEPT !.executing = "", !.finished = Append(@, node.id),
                      !.trace = recorded,
                      !.status = IF last THEN "returned" ELSE "running",
                      !.out = IF last THEN DictGet(recorded, r.chain.main_out, "") ELSE ""]

Chain_record ==
    /\ run.status = "running"
    /\ run.executing # ""
    /\ \E result \in NodeResults :
           /\ run' = Chain_step(run, result)
           /\ ret' = Ret("Chain.record", run.executing, result.err, result.out)
    /\ UNCHANGED <<m_vars, p_vars, ai_vars, action, threads, server>>

-----------------------------------------------------------------------------
(* Specification of one chain call *)

ChainInit ==
    /\ models = EmptyDict
    /\ m_counter = EmptyDict
    /\ tags_to_models = EmptyDict
    /\ p_nodes = EmptyDict
    /\ p_counter = EmptyDict
    /\ p_tags_to_nodes = EmptyDict
    /\ ai_nodes = EmptyDict
    /\ ai_counter = EmptyDict
    /\ ai_tags_to_nodes = EmptyDict
    /\ action = None
    /\ threads = EmptyDict
    /\ run \in {ChainRun(c, p) : c \in Chains, p \in ChainPayloads}
    /\ server = None
    /\ ret = Ret("init", "", NoError, None)

ChainNext ==
    \/ Chain_call
    \/ Chain_invoke
    \/ Chain_record

ChainSpec == ChainInit /\ [][ChainNext]_vars

-----------------------------------------------------------------------------
(* Properties of the chain executor, checked under ChainSpec *)

\* position of a node in a list (0 when absent)
IndexIn(seq, id) == IF id \in Range(seq) THEN CHOOSE i \in DOMAIN seq : seq[i] = id ELSE 0

\* one node at a time, each after the sources of its inbound edges have finished
InDependencyOrder ==
    /\ Len(run.started) - Len(run.finished) \in {0, 1}
    /\ \A v \in Range(run.started) :
           \A u \in SourcesOf(run.chain, v) :
               /\ u \in Range(run.finished)
               /\ IndexIn(run.started, u) < IndexIn(run.started, v)

\* nodes that no edge path orders run in the order of their declaration
UnorderedInDeclarationOrder ==
    \A v \in Range(run.started) :
        \A u \in Range(NodeIdsOf(run.chain)) :
            ( /\ IndexIn(NodeIdsOf(run.chain), u) < IndexIn(NodeIdsOf(run.chain), v)
              /\ ~EdgePath(run.chain, u, v)
              /\ ~EdgePath(run.chain, v, u) )
            => /\ u \in Range(run.started)
               /\ IndexIn(run.started, u) < IndexIn(run.started, v)

\* C11 (as stated): during a chain call nodes execute one at a time, none before
\* the sources of its inbound edges have finished, and two nodes that no edge
\* path orders execute in declaration order.
C11_TopologicalDeclarationOrder ==
    run # None => (InDependencyOrder /\ UnorderedInDeclarationOrder)

\* the nodes without inbound edge run before the others, in declaration order
RootsFirst ==
    \A v \in Range(run.started) :
        \A u \in Range(NodeIdsOf(run.chain)) :
            ( /\ SourcesOf(run.chain, u) = {}
              /\ \/ SourcesOf(run.chain, v) # {}
                 \/ IndexIn(NodeIdsOf(run.chain), u) < IndexIn(NodeIdsOf(run.chain), v) )
            => /\ u \in Range(run.started)
               /\ IndexIn(run.started, u) < IndexIn(run.started, v)

\* C11 (amended): during a chain call nodes execute one at a time, none before
\* the sources of its inbound edges have finished, and the nodes without
\* inbound edge execute before every other node, in declaration order.
C11_TopologicalRootsFirst ==
    run # None => (InDependencyOrder /\ RootsFirst)

\* a call of three nodes ran them all, the last declared one before the first
C11_Witness ==
    /\ run # None
    /\ run.status = "returned"
    /\ run.err = NoError
    /\ Len(run.finished) = 3
    /\ run.chain.edges # <<>>
    /\ run.finished[1] = ChainNodeNames[2]
    /\ run.finished[3] = ChainNodeNames[1]

\* the callable of the executing node has just returned an error
NodeFailed == run.executing # "" /\ ret'.op = "Chain.record" /\ ret'.err # NoError

\* C12: when the callable of a node returns an error, the chain call returns
\* that error with the trace as it was before the failure; after the return no
\* node is invoked; and at every step the trace holds keys of nodes that ran
\* only, and keeps every entry recorded earlier as it was.
C12_ErrorHaltsChain ==
    [][ /\ NodeFailed => /\ run'.status = "returned"
                         /\ run'.err = ret'.err
                         /\ run'.trace = run.trace
                         /\ run'.started = run.started
        /\ run.status = "returned" => run' = run
        /\ \A k \in DOMAIN run'.trace : k[1] \in Range(run'.started)
        /\ \A k \in DOMAIN run.trace : k \in DOMAIN run'.trace /\ run'.trace[k] = run.trace[k]
      ]_vars

\* the second node of a longer chain failed: the call has returned its error
\* with the entries of the first node
C12_Witness ==
    /\ run # None
    /\ run.status = "returned"
    /\ ret.op = "Chain.record"
    /\ run.err = ErrNodeCall
    /\ Len(run.started) = 2
    /\ Len(run.order) > 2
    /\ DOMAIN run.trace = {TraceKey(run.started[1], "reply")}

-----------------------------------------------------------------------------
(* Chain loader (chainfury/client.py, get_chain_from_id) *)

\* number of nodes of the longest DAG of a fetched definition
MaxDagNodes == 2

ErrChainFetch == "ValueError: Could not get chain"
ErrNoSample == "ValueError: Dag has no sample"
ErrNoMainIn == "ValueError: Dag has no main_in"
ErrNoMainOut == "ValueError: Dag has no main_out"
ErrNoCfIdOrData == "ValueError: Action has no cf_id or cf_data"
ErrActionNotFound == "ValueError: Action not found"
ErrInvalidEdge == "ValueError: Invalid edge"

\* Node.from_dict: a new Node object with the entries of the dict
Node_from_dict(d) == Node(d.id, d.type, d.fn, d.description, d.fields, d.outputs)

\* A Python name holds a reference to an object. The Node objects the loader
\* handles live in the AI registry, in the programatic registry, in the local
\* actions_map (objects built from a remote answer, by cf_id) or nowhere else
\* than the list of nodes (objects built from a cf_data, one per DAG node).
Ref(heap, key) == [heap |-> heap, key |-> key]
NoRef == Ref("", "")

\* the object a reference designates, in the state s of the loop
Deref(s, ref) ==
    CASE ref.heap = "ai" -> s.ai_nodes[ref.key]
      [] ref.heap = "p" -> s.p_nodes[ref.key]
      [] ref.heap = "remote" -> s.actions_map[ref.key]
      [] ref.heap = "inline" -> s.inline[ref.key]

\* cf_action = Node.from_dict(node.cf_data), or actions_map.get(node.cf_id, None)
local_lookup(s, node) ==
    IF node.cf_data # None
    THEN [s EXCEPT !.inline = DictPut(@, node.id, Node_from_dict(node.cf_data)),
                   !.cf_action = Ref("inline", node.id)]
    ELSE [s EXCEPT !.cf_action = IF node.cf_id \in DOMAIN s.actions_map
                                 THEN Ref("remote", node.cf_id) ELSE NoRef]

\* if not cf_action: try ai_actions_registry.get(node.cf_id)
ai_lookup(s, cf_id) ==
    IF s.cf_action # NoRef THEN s
    ELSE [s EXCEPT !.ai_counter = DictPut(@, cf_id, DictGet(@, cf_id, 0) + 1),
                   !.cf_action = IF cf_id \in DOMAIN s.ai_nodes THEN Ref("ai", cf_id)
                                 ELSE NoRef]

\* if not cf_action: try programatic_actions_registry.get(node.cf_id)
p_lookup(s, cf_id) ==
    IF s.cf_action # NoRef THEN s
    ELSE [s EXCEPT !.p_counter = DictPut(@, cf_id, DictGet(@, cf_id, 0) + 1),
                   !.cf_action = IF cf_id \in DOMAIN s.p_nodes THEN Ref("p", cf_id)
                                 ELSE NoRef]

\* if not cf_action: stub.fury.actions.u(node.cf_id)(), cached in actions_map
remote_lookup(s, cf_id, remote_actions) ==
    IF s.cf_action # NoRef THEN s
    ELSE IF cf_id \in DOMAIN remote_actions
    THEN [s EXCEPT !.remote = Append(@, cf_id),
                   !.actions_map = DictPut(@, cf_id, Node_from_dict(remote_actions[cf_id])),
                   !.cf_action = Ref("remote", cf_id)]
    ELSE [s EXCEPT !.remote = Append(@, cf_id), !.err = ErrActionNotFound]

\* the remote endpoint is asked without a look at the registries
lookup_RemoteOnly(s, cf_id, remote_actions) == remote_lookup(s, cf_id, remote_actions)

\* the three lookups of a node that has no local object, in the order of the code
lookup(s, cf_id, remote_actions) ==
    remote_lookup(p_lookup(ai_lookup(s, cf_id), cf_id), cf_id, remote_actions)

\* cf_action.id = node.id, on the object cf_action refers to
set_id(s, ref, id) ==
    CASE ref.heap = "ai" -> [s EXCEPT !.ai_nodes[ref.key].id = id]
      [] ref.heap = "p" -> [s EXCEPT !.p_nodes[ref.key].id = id]
      [] ref.heap = "remote" -> [s EXCEPT !.actions_map[ref.key].id = id]
      [] ref.heap = "inline" -> [s EXCEPT !.inline[ref.key].id = id]

\* one turn of the loop over the DAG nodes
resolve_node(s, node, remote_actions) ==
    IF node.cf_id = "" /\ node.cf_data = None
    THEN [s EXCEPT !.err = ErrNoCfIdOrData]
    ELSE LET found == lookup(local_lookup(s, node), node.cf_id, remote_actions)
         IN IF found.err # NoError THEN found
            ELSE [set_id(found, found.cf_action, node.id) EXCEPT
                     !.nodes = Append(@, found.cf_action)]

\* the loop over the DAG nodes, left at the first error
RECURSIVE resolve_nodes(_, _, _)
resolve_nodes(s, dag_nodes, remote_actions) ==
    IF dag_nodes = <<>> \/ s.err # NoError THEN s
    ELSE resolve_nodes(resolve_node(s, Head(dag_nodes), remote_actions), Tail(dag_nodes),
                       remote_actions)

\* an edge of the DAG with its four ends
ValidEdge(edge) ==
    edge.source # "" /\ edge.target # "" /\ edge.sourceHandle # "" /\ edge.targetHandle # ""

\* Edge.from_dict
Edge_from_dict(d) == Edge(d.source, d.target, <<d.sourceHandle, d.targetHandle>>)

\* the registries and the locals of the call, before the loop
LoadState ==
    [ai_nodes |-> ai_nodes, ai_counter |-> ai_counter, p_nodes |-> p_nodes,
     p_counter |-> p_counter, actions_map |-> EmptyDict, inline |-> EmptyDict,
     cf_action |-> NoRef, nodes |-> <<>>, remote |-> <<>>, err |-> NoError]

\* the call left with an error in the state s, or returned a chain
Left(s, err) == [s |-> s, err |-> err, chain |-> None]

\* lines 204-263: resolve the DAG nodes, convert the edges, build the Chain
build_chain(s, dag, remote_actions) ==
    LET r == resolve_nodes(s, dag.nodes, remote_actions)
    IN IF r.err # NoError THEN Left(r, r.err)
       ELSE IF \E i \in DOMAIN dag.edges : ~ValidEdge(dag.edges[i])
       THEN Left(r, ErrInvalidEdge)
       ELSE [s |-> r, err |-> NoError,
             chain |-> Chain([i \in DOMAIN r.nodes |-> Deref(r, r.nodes[i])],
                             [i \in DOMAIN dag.edges |-> Edge_from_dict(dag.edges[i])],
                             dag.sample, dag.main_in, dag.main_out)]

\* get_chain_from_id that tests sample, main_in and main_out after the nodes
get_chain_from_id_ChecksLast(s, fetched, remote_actions) ==
    IF fetched.err THEN Left(s, ErrChainFetch)
    ELSE LET dag == fetched.chain.dag
             built == build_chain(s, dag, remote_actions)
         IN IF built.err # NoError THEN built
            ELSE IF dag.sample = EmptyDict THEN Left(built.s, ErrNoSample)
            ELSE IF dag.main_in = "" THEN Left(built.s, ErrNoMainIn)
            ELSE IF dag.main_out = "" THEN Left(built.s, ErrNoMainOut)
            ELSE built

\* get_chain_from_id, on the answer (chain, err) of the chatbot endpoint
get_chain_from_id(s, fetched, remote_actions) ==
    IF fetched.err THEN Left(s, ErrChainFetch)
    ELSE LET dag == fetched.chain.dag
         IN IF dag.sample = EmptyDict THEN Left(s, ErrNoSample)
            ELSE IF dag.main_in = "" THEN Left(s, ErrNoMainIn)
            ELSE IF dag.main_out = "" THEN Left(s, ErrNoMainOut)
            ELSE build_chain(s, dag, remote_actions)

\* the chain-local ids of the DAG nodes, by position
DagIds == <<"c1", "c2", "c3", "c4">>

\* the action the remote endpoint knows, as the dict it answers with
RemoteActions ==
    "remote-action" :> Node("remote-action", "programatic", FnRegex, "substitute",
                            func_to_vars(FnRegex), <<Var("text", TRUE, <<"0">>)>>)

\* an inline body of a DAG node
InlineData ==
    Node("inline-action", "programatic", FnCallApi, "call an API", func_to_vars(FnCallApi),
         <<Var("text", TRUE, <<>>)>>)

\* what a DAG node may carry: a reference id (registered, remote, or unknown
\* everywhere), an inline body, both, or neither
DagNodeKinds ==
    {[cf_id |-> id, cf_data |-> None] : id \in NodeIds \cup {"remote-action", "unknown"}}
    \cup {[cf_id |-> "", cf_data |-> InlineData], [cf_id |-> "n1", cf_data |-> InlineData],
          [cf_id |-> "", cf_data |-> None]}

DagNodes ==
    UNION {{[i \in 1..n |-> [id |-> DagIds[i], cf_id |-> k[i].cf_id, cf_data |-> k[i].cf_data]] :
               k \in [1..n -> DagNodeKinds]} : n \in 0..MaxDagNodes}

\* the rest of a DAG: complete, complete with an edge, with an edge that lacks
\* a handle, or lacking sample, main_in or main_out
DagEdge(sourceHandle) ==
    [source |-> "c1", target |-> "c2", sourceHandle |-> sourceHandle, targetHandle |-> "text"]

DagShapes ==
    { [edges |-> <<>>, sample |-> ("text" :> "hi"), main_in |-> "text", main_out |-> "c1/text"],
      [edges |-> <<DagEdge("text")>>, sample |-> ("text" :> "hi"), main_in |-> "text",
       main_out |-> "c2/text"],
      [edges |-> <<DagEdge("")>>, sample |-> ("text" :> "hi"), main_in |-> "text",
       main_out |-> "c2/text"],
      [edges |-> <<>>, sample |-> EmptyDict, main_in |-> "text", main_out |-> "c1/text"],
      [edges |-> <<>>, sample |-> ("text" :> "hi"), main_in |-> "", main_out |-> "c1/text"],
      [edges |-> <<>>, sample |-> ("text" :> "hi"), main_in |-> "text", main_out |-> ""] }

\* the answers of the chatbot endpoint: a definition, or an error
Fetched ==
    {[err |-> FALSE,
      chain |-> [dag |-> [nodes |-> n, edges |-> d.edges, sample |-> d.sample,
                          main_in |-> d.main_in, main_out |-> d.main_out]]] :
        n \in DagNodes, d \in DagShapes}
    \cup {[err |-> TRUE, chain |-> [dag |-> None]]}

\* a call of get_chain_from_id: the registries after it are those the loop left
GetChainFromId ==
    /\ TotalGets < MaxGets
    /\ LET r == get_chain_from_id(LoadState, server.chatbot, server.actions)
       IN /\ ai_nodes' = r.s.ai_nodes
          /\ ai_counter' = r.s.ai_counter
          /\ p_nodes' = r.s.p_nodes
          /\ p_counter' = r.s.p_counter
          /\ ret' = [op |-> "get_chain_from_id", id |-> "chatbot", err |-> r.err,
                     out |-> r.chain, remote |-> r.s.remote, refs |-> r.s.nodes]
    /\ UNCHANGED <<m_vars, p_tags_to_nodes, ai_tags_to_nodes, action, threads, run, server>>

-----------------------------------------------------------------------------
(* Specification of the chain loader: the components are registered, then *)
(* chains are loaded                                                      *)

\* the node ProgramaticActionsRegistry.register stores for a request
RegisteredProgramatic(r) ==
    Node(r.node_id, "programatic", r.fn, r.description, func_to_vars(r.fn),
         func_to_return_vars(r.fn, r.outputs))

\* the node AIActionsRegistry.register stores for a request without outputs
RegisteredAI(r, model) ==
    LET ai_action == AIAction_init(r.node_id, model, r.model_params, r.fn, r.outputs).obj
    IN Node(r.node_id, "ai", ai_action, r.description, ai_action.fields \o model.vars,
            func_to_return_vars(ai_action, ("model_output" :> <<>>)))

LoadInit ==
    /\ models = ("m1" :> ModelCompletion) @@ ("m2" :> ModelChat)
    /\ tags_to_models = AddTags(EmptyDict, <<"text">>, "m1")
    /\ \E registered \in SUBSET {"n1"} :
          /\ ai_nodes = [id \in registered |->
                            RegisteredAI(CHOOSE r \in AIRequests :
                                             r.node_id = id /\ r.fn = TmplSay, ModelCompletion)]
          /\ ai_tags_to_nodes = [t \in {"gen" : id \in registered} |-> <<"n1">>]
          /\ m_counter = [id \in {"m1" : x \in registered} |-> 1]
    /\ ai_counter = EmptyDict
    /\ \E registered \in {{"n2"}, {"n1", "n2"}} :
          /\ p_nodes = [id \in registered |->
                           RegisteredProgramatic(CHOOSE r \in ProgramaticRequests :
                               r.node_id = id /\ r.fn = FnRegex /\ r.outputs = ("text" :> <<"0">>))]
          /\ p_tags_to_nodes = [t \in {"io"} |-> <<"n2">>]
    /\ p_counter = EmptyDict
    /\ action = None
    /\ threads = EmptyDict
    /\ run = None
    /\ server \in {[chatbot |-> f, actions |-> RemoteActions] : f \in Fetched}
    /\ ret = Ret("init", "", NoError, None)

LoadNext == GetChainFromId

LoadSpec == LoadInit /\ [][LoadNext]_vars

-----------------------------------------------------------------------------
(* Properties of the chain loader, checked under LoadSpec *)

\* a call of get_chain_from_id has just been made, on a fetched definition
Loaded == ret'.op = "get_chain_from_id" /\ ~server.chatbot.err

\* the DAG of the definition the endpoint answers with
FetchedDag == server.chatbot.chain.dag

\* the DAG lacks sample, main_in or main_out
LacksTop(dag) == dag.sample = EmptyDict \/ dag.main_in = "" \/ dag.main_out = ""

\* C13: a definition whose DAG lacks sample, main_in or main_out is rejected
\* before any of its nodes is looked at: the registries (nodes and counters)
\* are as before, no remote action lookup was made, no node was resolved and
\* no chain was built.
C13_RejectedBeforeNodes ==
    [][ (Loaded /\ LacksTop(FetchedDag))
        => /\ ret'.err \in {ErrNoSample, ErrNoMainIn, ErrNoMainOut}
           /\ UNCHANGED <<m_vars, p_vars, ai_vars>>
           /\ ret'.remote = <<>>
           /\ ret'.refs = <<>>
           /\ ret'.out = None
      ]_vars

\* a definition without main_out whose first node references a registered
\* action was rejected
C13_Witness ==
    /\ ret.op = "get_chain_from_id"
    /\ ret.err = ErrNoMainOut
    /\ Len(FetchedDag.nodes) = MaxDagNodes
    /\ FetchedDag.nodes[1].cf_id \in DOMAIN p_nodes
    /\ FetchedDag.nodes[1].cf_data = None
    /\ p_counter = EmptyDict

\* the node has neither reference nor body, or a reference known nowhere
Unresolvable(node) ==
    /\ node.cf_data = None
    /\ \/ node.cf_id = ""
       \/ node.cf_id \notin DOMAIN ai_nodes \cup DOMAIN p_nodes \cup DOMAIN server.actions

\* C14: the remote action endpoint is asked for a cf_id only if a node of the
\* DAG has that cf_id, no inline body, and the cf_id is in neither registry;
\* a definition with a node that has neither cf_id nor cf_data, or whose cf_id
\* is known nowhere, fails to load and no chain is returned.
C14_RemoteLookupLast ==
    [][ Loaded
        => /\ \A cf \in Range(ret'.remote) :
                 /\ cf \notin DOMAIN ai_nodes \cup DOMAIN p_nodes
                 /\ \E i \in DOMAIN FetchedDag.nodes :
                        FetchedDag.nodes[i].cf_id = cf /\ FetchedDag.nodes[i].cf_data = None
           /\ (\E i \in DOMAIN FetchedDag.nodes : Unresolvable(FetchedDag.nodes[i]))
              => (ret'.err # NoError /\ ret'.out = None)
      ]_vars

\* a chain was loaded whose first node is a registered action and whose second
\* node came from the remote endpoint
C14_Witness ==
    /\ ret.op = "get_chain_from_id"
    /\ ret.err = NoError
    /\ ret.remote = <<"remote-action">>
    /\ Len(ret.refs) = 2
    /\ ret.refs[1].heap = "p"
    /\ ret.refs[2].heap = "remote"

\* C15: in the chain get_chain_from_id returns, the i-th node has the
\* chain-local id of the i-th node of the DAG, for every i (so nodes of the DAG
\* with distinct ids that reference one cf_id give chain nodes with distinct ids).
C15_NodesCarryDagIds ==
    (ret.op = "get_chain_from_id" /\ ret.err = NoError)
    => /\ Len(ret.out.nodes) = Len(FetchedDag.nodes)
       /\ \A i \in DOMAIN ret.out.nodes : ret.out.nodes[i].id = FetchedDag.nodes[i].id

\* C18: every node stored in the programatic and AI registries has the id it
\* is registered under, whatever chains have been loaded.
C18_RegistryIdsAreKeys ==
    /\ \A k \in DOMAIN p_nodes : p_nodes[k].id = k
    /\ \A k \in DOMAIN ai_nodes : ai_nodes[k].id = k

-----------------------------------------------------------------------------
(* Invocation counters, checked under Spec *)

\* C17: after any sequence of register and get calls, every id with a non-zero
\* invocation counter is registered in the registry of the counter (a get that
\* fails with NotFound leaves the counters as they were).
C17_CountedIdsAreRegistered ==
    /\ \A id \in DOMAIN m_counter : m_counter[id] # 0 => id \in DOMAIN models
    /\ \A id \in DOMAIN p_counter : p_counter[id] # 0 => id \in DOMAIN p_nodes
    /\ \A id \in DOMAIN ai_counter : ai_counter[id] # 0 => id \in DOMAIN ai_nodes

-----------------------------------------------------------------------------
(* Concurrent get calls on the registries: no lock is taken, and            *)
(* "self.counter[id] = self.counter.get(id, 0) + 1" reads the counter and   *)
(* writes it in two steps another thread may come between                   *)

\* number of threads calling get
MaxThreads == 3

Threads == 1..MaxThreads

\* the registries the threads call, with the ids registered in each
RaceRegistries == {"ModelRegistry", "ProgramaticActionsRegistry"}
RegisteredIn(reg) == IF reg = "ModelRegistry" THEN DOMAIN models ELSE DOMAIN p_nodes
CounterOf(reg) == IF reg = "ModelRegistry" THEN m_counter ELSE p_counter

\* get, first step: self.counter.get(id, 0) is read
get_read(t, reg, id) ==
    /\ threads[t].pc = "idle"
    /\ threads' = [threads EXCEPT ![t] = [pc |-> "read", reg |-> reg, id |-> id,
                                          read |-> DictGet(CounterOf(reg), id, 0)]]
    /\ UNCHANGED <<m_vars, p_vars, ai_vars, action, run, server, ret>>

\* get, second step: self.counter[id] is written, the entry is looked up and returned
get_write(t) ==
    /\ threads[t].pc = "read"
    /\ LET reg == threads[t].reg
           id == threads[t].id
       IN IF reg = "ModelRegistry"
          THEN /\ m_counter' = DictPut(m_counter, id, threads[t].read + 1)
               /\ ret' = Ret("ModelRegistry.get", id, NoError, models[id])
               /\ UNCHANGED p_counter
          ELSE /\ p_counter' = DictPut(p_counter, id, threads[t].read + 1)
               /\ ret' = Ret("ProgramaticActionsRegistry.get", id, NoError, p_nodes[id])
               /\ UNCHANGED m_counter
    /\ threads' = [threads EXCEPT ![t].pc = "returned"]
    /\ UNCHANGED <<models, tags_to_models, p_nodes, p_tags_to_nodes, ai_vars, action, run,
                   server>>

RaceInit ==
    /\ models = ("m1" :> ModelCompletion) @@ ("m2" :> ModelChat)
    /\ tags_to_models = AddTags(EmptyDict, <<"text">>, "m1")
    /\ m_counter = EmptyDict
    /\ p_nodes = [id \in {"n2"} |->
                     RegisteredProgramatic(CHOOSE r \in ProgramaticRequests :
                         r.node_id = id /\ r.fn = FnRegex /\ r.outputs = ("text" :> <<"0">>))]
    /\ p_tags_to_nodes = [t \in {"io"} |-> <<"n2">>]
    /\ p_counter = EmptyDict
    /\ ai_nodes = EmptyDict
    /\ ai_counter = EmptyDict
    /\ ai_tags_to_nodes = EmptyDict
    /\ action = None
    /\ threads = [t \in Threads |-> [pc |-> "idle", reg |-> "", id |-> "", read |-> 0]]
    /\ run = None
    /\ server = None
    /\ ret = Ret("init", "", NoError, None)

RaceNext ==
    \/ \E t \in Threads, reg \in RaceRegistries : \E id \in RegisteredIn(reg) : get_read(t, reg, id)
    \/ \E t \in Threads : get_write(t)

RaceSpec == RaceInit /\ [][RaceNext]_vars

\* the calls of get(id) on a registry that have returned
ReturnedCalls(reg, id) ==
    {t \in Threads : threads[t].pc = "returned" /\ threads[t].reg = reg /\ threads[t].id = id}

\* C16: once all the concurrent get calls have returned, the invocation counter
\* of every registered id has increased (from zero) by the number of the calls
\* made for it: no update is lost.
C16_NoLostUpdate ==
    (\A t \in Threads : threads[t].pc = "returned")
    => \A reg \in RaceRegistries : \A id \in RegisteredIn(reg) :
           DictGet(CounterOf(reg), id, 0) = Cardinality(ReturnedCalls(reg, id))

====
